---- MODULE Spec2Model ----
(***************************************************************************)
(* Model of InformBot (src/bot.py): the IRC bot that arbitrates group      *)
(* control of an interactive-fiction process by majority vote.             *)
(*                                                                         *)
(* Time is time.time() truncated to whole seconds.  Chat messages are      *)
(* modelled after parsing (the command and its argument).                  *)
(***************************************************************************)
EXTENDS Integers, Sequences, FiniteSets, TLC

(* ------------------------------------------------------------------ *)
(* Configuration (settings.txt) and model bounds                      *)
(* ------------------------------------------------------------------ *)
VOTE_INTERVAL == 2
ACTIVE_DECAY == 2
BUFFERLENGTH == 2
BOT_NICK == "bot"

\* Bounds of the model.
MaxTime == 6
MaxSessions == 3
MaxActive == 12

Participants == {"u1", "u2"}
Nicks == Participants \cup {BOT_NICK}
GameDir == {"g1", "g2"}
\* What the participants type in a run, one of
\* <<arguments of !load, arguments of !vote, whether !stopgame is typed,
\*   whether the bot's answers are recorded in reply,
\*   the number of lines a game prints when it starts,
\*   whether the order of the first votes is recorded in seen and refilled>>:
\* two games and stop votes; one game and two commands; all three categories.
Scenarios == {<<{"g1", "g2", "nofile"}, {}, TRUE, FALSE, 1, FALSE>>,
              <<{"g1", "nofile"}, {"look", "north"}, FALSE, FALSE, 1, FALSE>>,
              <<{"g1"}, {"look"}, TRUE, FALSE, 1, FALSE>>}
StopVoters(t) == IF t[3] THEN Participants ELSE {}
\* MAJORITY_RATIO values tried, as <<numerator, denominator>>.
Ratios == {<<1, 2>>, <<1, 1>>}
\* MAJORITY_RATIO values for get_required_votes taken alone: 0.1, 0.25, 0.3,
\* 0.5, 0.7, 0.75, 0.9 and 1.0.
QuorumRatios == {<<1, 10>>, <<1, 4>>, <<3, 10>>, <<1, 2>>, <<7, 10>>, <<3, 4>>,
                 <<9, 10>>, <<1, 1>>}

\* Python's None, for the optional timestamps and the optional game.
None == -1
Truthy(x) == x # None /\ x # 0

VARIABLES
    clock,                \* time.time()
    typed,                \* the arguments the participants type in this run
    ratio,                \* MAJORITY_RATIO
    game,                 \* self.game: None or the identity of an InformGame
    running,              \* InformGame objects whose process has not exited
    nextSession,          \* identity given to the next InformGame
    voter_choices,        \* self.voter_choices: user -> command
    votes,                \* self.votes: command -> set of users, in key order
    game_voter_choices,   \* self.game_voter_choices: user -> game
    game_votes,           \* self.game_votes: game -> set of users, in key order
    stopgame_voters,      \* self.stopgame_voters
    command_vote_start,   \* self.command_vote_start
    load_vote_start,      \* self.load_vote_start
    stopgame_vote_start,  \* self.stopgame_vote_start
    users_last_activity,  \* self.users_last_activity: nick -> timestamp
    loopAlive,            \* the _vote_loop thread has not died of an exception
    relays,               \* the _relay_game_output threads, in order of creation
    replay_buffer,        \* self.replay_buffer
    gamename,             \* self.gamename
    out,                  \* InformGame -> lines written to its stdout and not read yet
    written,              \* number of lines the game processes have written so far
    \* history variables (observations, not program state)
    lastMsg,              \* nick -> time of its most recent message, or None
    firstVote,            \* category -> time of the first vote since its votes were last emptied
    seen,                 \* category -> the choices voted for since the last clearing, in order of first vote
    refilled,             \* category -> the choices whose bucket was emptied and voted for again
    cmd_cast,             \* user -> game that was current when the user's command vote was cast
    stop_cast,            \* user -> game that was current when the user's stop vote was cast
    res,                  \* what the most recent step of _vote_loop resolved
    reply,                \* what on_pubmsg answered to the most recent message
    chan,                 \* the game lines sent to the channel so far, in order
    \* positions and locals of the two threads (fine-grained specification)
    hpc, huser, harg, hgame,
    tpc, tnow, treq,
    \* argument and result of get_required_votes taken alone
    qin, qout

progVars == <<game, running, nextSession, voter_choices, votes, game_voter_choices,
              game_votes, stopgame_voters, command_vote_start, load_vote_start,
              stopgame_vote_start, users_last_activity, loopAlive, relays,
              out, written>>
ballotVars == <<voter_choices, votes, game_voter_choices, game_votes, stopgame_voters,
                command_vote_start, load_vote_start, stopgame_vote_start>>
pipeVars == <<replay_buffer, gamename, chan>>
histVars == <<lastMsg, firstVote, seen, refilled, cmd_cast, stop_cast, res, reply>>
quorumVars == <<qin, qout>>
handlerVars == <<hpc, huser, harg, hgame>>
tickVars == <<tpc, tnow, treq>>
vars == <<clock, ratio, typed, progVars, pipeVars, histVars, handlerVars, tickVars,
          quorumVars>>

(* ------------------------------------------------------------------ *)
(* dict / defaultdict(set) helpers                                    *)
(* ------------------------------------------------------------------ *)
EmptyDict == [x \in {} |-> None]
DictPut(d, k, v) == [x \in (DOMAIN d) \cup {k} |-> IF x = k THEN v ELSE d[x]]
DictDel(d, ks) == [x \in (DOMAIN d) \ ks |-> d[x]]

\* A defaultdict(set) is a sequence of buckets [key, users] in insertion order.
Keys(dd) == {dd[i].key : i \in 1..Len(dd)}
Bucket(dd, k) == IF k \in Keys(dd)
                 THEN (CHOOSE i \in 1..Len(dd) : dd[i].key = k)
                 ELSE 0
UsersOf(dd, k) == IF k \in Keys(dd) THEN dd[Bucket(dd, k)].users ELSE {}
\* dd[k]: a missing key is created with an empty set.
Touch(dd, k) == IF k \in Keys(dd) THEN dd ELSE Append(dd, [key |-> k, users |-> {}])
\* dd[k].discard(u)
SetDiscard(dd, k, u) ==
    LET t == Touch(dd, k)
    IN [i \in 1..Len(t) |-> IF t[i].key = k
                             THEN [key |-> k, users |-> t[i].users \ {u}]
                             ELSE t[i]]
\* dd[k].add(u)
SetAdd(dd, k, u) ==
    LET t == Touch(dd, k)
    IN [i \in 1..Len(t) |-> IF t[i].key = k
                             THEN [key |-> k, users |-> t[i].users \cup {u}]
                             ELSE t[i]]

\* Counter({k: len(users)}).most_common(1)[0]: the first bucket, in key
\* order, whose size is the maximum.
\* (MostCommonLast: the last such bucket.)
MostCommonLast(dd) ==
    LET best == CHOOSE i \in 1..Len(dd) :
                    /\ \A j \in 1..Len(dd) : Cardinality(dd[j].users) <= Cardinality(dd[i].users)
                    /\ \A j \in (i + 1)..Len(dd) : Cardinality(dd[j].users) < Cardinality(dd[i].users)
    IN [key |-> dd[best].key, count |-> Cardinality(dd[best].users), users |-> dd[best].users]
MostCommon(dd) ==
    LET best == CHOOSE i \in 1..Len(dd) :
                    /\ \A j \in 1..Len(dd) : Cardinality(dd[j].users) <= Cardinality(dd[i].users)
                    /\ \A j \in 1..(i - 1) : Cardinality(dd[j].users) < Cardinality(dd[i].users)
    IN [key |-> dd[best].key, count |-> Cardinality(dd[best].users), users |-> dd[best].users]

(* ------------------------------------------------------------------ *)
(* ActivityTracker and QuorumPolicy                                   *)
(* ------------------------------------------------------------------ *)
\* get_active_user_count, the purge: entries with ts < now - ACTIVE_DECAY go.
\* (PurgeInclusive: the comparison taken as ts <= cutoff.)
PurgeInclusive(ula, now) == DictDel(ula, {u \in DOMAIN ula : ula[u] <= now - ACTIVE_DECAY})
Purge(ula, now) == DictDel(ula, {u \in DOMAIN ula : ula[u] < now - ACTIVE_DECAY})
\* get_active_user_count, the count: the entries left, the bot's excluded.
ActiveUsers(ula, now) == {u \in DOMAIN Purge(ula, now) : u # BOT_NICK}
ActiveCount(ula, now) == Cardinality(ActiveUsers(ula, now))
\* get_required_votes: max(1, int(active_count * MAJORITY_RATIO) + 1).
\* The float product and its truncation equal the exact quotient for the
\* ratios and counts modelled here.
IntMax(a, b) == IF a >= b THEN a ELSE b
\* (RequiredVotesCeil: the product rounded up instead of truncated;
\*  RequiredVotesNoCarry: the + 1 left out.)
RequiredVotesCeil(active, r) == IntMax(1, ((active * r[1] + r[2] - 1) \div r[2]) + 1)
RequiredVotesNoCarry(active, r) == IntMax(1, (active * r[1]) \div r[2])
RequiredVotes(active, r) == IntMax(1, ((active * r[1]) \div r[2]) + 1)

(* ------------------------------------------------------------------ *)
(* The bot's state as one record, so that the steps of a handler      *)
(* compose as the statements of the code do                           *)
(* ------------------------------------------------------------------ *)
\* seen and refilled before any vote
NoSeen == [c \in {"load", "command", "stop"} |-> <<>>]
NoRefilled == [c \in {"load", "command", "stop"} |-> {}]

\* res: the category resolved ("none" when none was), the leading choice,
\* its count and users, the threshold and the active nicks it was computed
\* from, the time, the time of the category's first vote, all its voters and
\* what each voted for, the choices in order of first vote and those voted
\* for again after their bucket was emptied, the calls made on the game, the
\* games the deciding votes were cast for, the game before the resolution,
\* and whether the call raised.
NoRes == [cat |-> "none", key |-> "", count |-> 0, required |-> 0, active |-> {}, now |-> 0,
          first |-> None, users |-> {}, voters |-> {}, choices |-> <<>>,
          seen |-> <<>>, refilled |-> {}, dispatched |-> <<>>,
          cast |-> {}, gameBefore |-> None, runningBefore |-> {}, raised |-> FALSE]

\* reply: the line on_pubmsg sent to the channel ("" when it sent none), the
\* nick and the argument it names, for the status line whether a game is
\* reported, the threshold and the replay buffer size it shows, and for a
\* replay the lines sent.
NoReply == [text |-> "", user |-> "", arg |-> "", active |-> FALSE,
            required |-> 0, size |-> 0, lines |-> <<>>]

Cur == [game |-> game, running |-> running, nextSession |-> nextSession,
        voter_choices |-> voter_choices, votes |-> votes,
        game_voter_choices |-> game_voter_choices, game_votes |-> game_votes,
        stopgame_voters |-> stopgame_voters,
        command_vote_start |-> command_vote_start,
        load_vote_start |-> load_vote_start,
        stopgame_vote_start |-> stopgame_vote_start,
        users_last_activity |-> users_last_activity,
        loopAlive |-> loopAlive, relays |-> relays, out |-> out, written |-> written,
        firstVote |-> firstVote, seen |-> seen, refilled |-> refilled,
        cmd_cast |-> cmd_cast, stop_cast |-> stop_cast, res |-> NoRes,
        reply |-> NoReply]

Install(s) ==
    /\ game' = s.game
    /\ running' = s.running
    /\ nextSession' = s.nextSession
    /\ voter_choices' = s.voter_choices
    /\ votes' = s.votes
    /\ game_voter_choices' = s.game_voter_choices
    /\ game_votes' = s.game_votes
    /\ stopgame_voters' = s.stopgame_voters
    /\ command_vote_start' = s.command_vote_start
    /\ load_vote_start' = s.load_vote_start
    /\ stopgame_vote_start' = s.stopgame_vote_start
    /\ users_last_activity' = s.users_last_activity
    /\ loopAlive' = s.loopAlive
    /\ relays' = s.relays
    /\ out' = s.out
    /\ written' = s.written
    /\ firstVote' = s.firstVote
    /\ seen' = IF typed[6] THEN s.seen ELSE NoSeen
    /\ refilled' = IF typed[6] THEN s.refilled ELSE NoRefilled
    /\ cmd_cast' = s.cmd_cast
    /\ stop_cast' = s.stop_cast
    /\ res' = IF typed[6] THEN s.res
              ELSE [s.res EXCEPT !.choices = <<>>, !.seen = <<>>, !.refilled = {}]
    /\ reply' = IF typed[4] THEN s.reply ELSE NoReply

NoCast == [u \in Nicks |-> None]
NoFirst == [c \in {"load", "command", "stop"} |-> None]
Range(f) == {f[x] : x \in DOMAIN f}
\* a vote for choice k is added to the tally dd of category cat
NoteSeen(sn, cat, k) ==
    IF k \in Range(sn[cat]) THEN sn ELSE [sn EXCEPT ![cat] = Append(@, k)]
NoteRefilled(rf, cat, dd, k) ==
    IF k \in Keys(dd) /\ dd[Bucket(dd, k)].users = {}
    THEN [rf EXCEPT ![cat] = @ \cup {k}] ELSE rf

(* ------------------------------------------------------------------ *)
(* on_pubmsg                                                          *)
(* ------------------------------------------------------------------ *)
\* self.users_last_activity[user] = now
RecordActivity(s, user, now) ==
    [s EXCEPT !.users_last_activity = DictPut(@, user, now)]
\* conn.privmsg(CHANNEL, ...) from on_pubmsg
Say(s, text, user, arg) ==
    [s EXCEPT !.reply = [NoReply EXCEPT !.text = text, !.user = user, !.arg = arg]]

\* !load <name>, the statements of a valid vote in order
LoadDiscardOld(s, user) ==
    IF user \in DOMAIN s.game_voter_choices
    THEN [s EXCEPT !.game_votes = SetDiscard(@, s.game_voter_choices[user], user)]
    ELSE s
LoadSetChoice(s, user, name, now) ==
    [s EXCEPT !.game_voter_choices = DictPut(@, user, name),
              !.firstVote = IF DOMAIN s.game_voter_choices = {}
                            THEN [@ EXCEPT !["load"] = now] ELSE @]
LoadAdd(s, user, name) ==
    [s EXCEPT !.game_votes = SetAdd(@, name, user),
              !.seen = NoteSeen(@, "load", name),
              !.refilled = NoteRefilled(@, "load", s.game_votes, name)]
LoadStart(s, now) ==
    IF ~Truthy(s.load_vote_start) THEN [s EXCEPT !.load_vote_start = now] ELSE s
\* (OnLoadUnchecked: the vote recorded whatever the name.)
OnLoadUnchecked(s, user, name, now) ==
    LoadStart(LoadAdd(LoadSetChoice(LoadDiscardOld(s, user), user, name, now),
                      user, name), now)
OnLoad(s, user, name, now) ==
    IF name \in GameDir
    THEN LoadStart(LoadAdd(LoadSetChoice(LoadDiscardOld(s, user), user, name, now),
                           user, name), now)
    ELSE Say(s, "not_found", user, name)

\* !vote <text>, the statements of an accepted vote in order
\* (VoteKeepOld: the earlier vote left in its bucket.)
VoteKeepOld(s, user) == s
VoteDiscardOld(s, user) ==
    IF user \in DOMAIN s.voter_choices
    THEN [s EXCEPT !.votes = SetDiscard(@, s.voter_choices[user], user),
                   !.cmd_cast = [@ EXCEPT ![user] = None]]
    ELSE s
VoteSetChoice(s, user, cmd, now) ==
    [s EXCEPT !.voter_choices = DictPut(@, user, cmd),
              !.firstVote = IF DOMAIN s.voter_choices = {}
                            THEN [@ EXCEPT !["command"] = now] ELSE @]
VoteAdd(s, user, cmd, current) ==
    [s EXCEPT !.votes = SetAdd(@, cmd, user),
              !.seen = NoteSeen(@, "command", cmd),
              !.refilled = NoteRefilled(@, "command", s.votes, cmd),
              !.cmd_cast = [@ EXCEPT ![user] = current]]
VoteStart(s, now) ==
    IF ~Truthy(s.command_vote_start) THEN [s EXCEPT !.command_vote_start = now] ELSE s
\* (OnVoteUnchecked: the vote recorded with or without a game.)
OnVoteUnchecked(s, user, cmd, now) ==
    VoteStart(VoteAdd(VoteSetChoice(VoteDiscardOld(s, user), user, cmd, now),
                      user, cmd, s.game), now)
OnVote(s, user, cmd, now) ==
    IF s.game = None
    THEN Say(s, "no_game_loaded", "", "")
    ELSE VoteStart(VoteAdd(VoteSetChoice(VoteDiscardOld(s, user), user, cmd, now),
                           user, cmd, s.game), now)

\* !stopgame
StopAdd(s, user, now, current) ==
    [s EXCEPT !.stopgame_voters = @ \cup {user},
              !.stop_cast = [@ EXCEPT ![user] = current],
              !.firstVote = IF s.stopgame_voters = {}
                            THEN [@ EXCEPT !["stop"] = now] ELSE @]
StopStart(s, now) ==
    IF ~Truthy(s.stopgame_vote_start) THEN [s EXCEPT !.stopgame_vote_start = now] ELSE s
OnStopgame(s, user, now) ==
    IF s.game = None
    THEN Say(s, "no_game_running", "", "")
    ELSE IF user \notin s.stopgame_voters
         THEN StopStart(StopAdd(s, user, now, s.game), now)
         ELSE Say(s, "already_voted", user, "")

\* !status: _handle_status calls get_required_votes, which purges, and sends
\* the status line
OnStatus(s, now) ==
    [s EXCEPT !.users_last_activity = Purge(@, now),
              !.reply = [NoReply EXCEPT
                            !.text = "status",
                            !.active = Truthy(s.game),
                            !.required = RequiredVotes(ActiveCount(s.users_last_activity, now),
                                                       ratio),
                            !.size = Len(replay_buffer)]]

\* !vote without argument: the tallies and the time left are read and sent
OnVoteQuery(s) == Say(s, "votes", "", "")

\* !replay: the buffered lines are sent in order (taken here as one read of
\* the list)
OnReplay(s) ==
    IF replay_buffer # <<>>
    THEN [s EXCEPT !.reply = [NoReply EXCEPT !.text = "replay",
                                             !.size = Len(replay_buffer),
                                             !.lines = replay_buffer]]
    ELSE Say(s, "no_lines", "", "")

(* ------------------------------------------------------------------ *)
(* InformGame and load_game                                           *)
(* ------------------------------------------------------------------ *)
\* InformGame.stop: terminate and wait, if the process has not exited.
GameStop(s) == [s EXCEPT !.running = @ \ {s.game}]
\* A _relay_game_output thread at its start: about to test the loop
\* condition, no stream chosen, no line held, game_name_counter = 0 and
\* first_line_set = False.
NewRelay == [pc |-> "check", fd |-> None, line |-> None, counter |-> 0, named |-> FALSE]
\* InformGame.__init__: the process starts and, during the sleep of
\* load_game, prints its opening lines (lines are numbered in the order
\* written; blank lines, which the relay drops, are left out).
Spawn(s) ==
    [s EXCEPT !.game = s.nextSession,
              !.running = @ \cup {s.nextSession},
              !.nextSession = @ + 1,
              !.out = DictPut(@, s.nextSession,
                              [k \in 1..typed[5] |-> s.written + k]),
              !.written = @ + typed[5]]
\* load_game: stop the previous game if there is one, start the new one and
\* a relay thread.
\* (LoadGameNoStop: the previous game left running.)
LoadGameNoStop(s, gamefile) ==
    [Spawn(s) EXCEPT !.relays = Append(@, NewRelay)]
LoadGame(s, gamefile) ==
    LET stopped == IF s.game # None THEN GameStop(s) ELSE s
    IN [Spawn(stopped) EXCEPT !.relays = Append(@, NewRelay)]

(* ------------------------------------------------------------------ *)
(* _vote_loop: one iteration, statement group by statement group      *)
(* ------------------------------------------------------------------ *)
\* get_active_user_count() and get_required_votes() at the top of the iteration
TickPurge(s, now) == [s EXCEPT !.users_last_activity = Purge(@, now)]
Required(s, now) == RequiredVotes(ActiveCount(s.users_last_activity, now), ratio)

Due(start, now) == Truthy(start) /\ now - start >= VOTE_INTERVAL

Outcome(s, cat, top, choices, req, now, cast) ==
    [cat |-> cat, key |-> top.key, count |-> top.count, required |-> req,
     active |-> ActiveUsers(s.users_last_activity, now), now |-> now,
     first |-> s.firstVote[cat], users |-> top.users, voters |-> DOMAIN choices,
     choices |-> choices, seen |-> s.seen[cat], refilled |-> s.refilled[cat],
     dispatched |-> <<>>, cast |-> cast,
     gameBefore |-> s.game, runningBefore |-> s.running, raised |-> FALSE]
Dispatch(r, op, arg, on) ==
    [r EXCEPT !.dispatched = Append(@, [op |-> op, arg |-> arg, on |-> on])]

\* the LoadGame category
LoadDue(s, now) == Due(s.load_vote_start, now) /\ s.game_votes # <<>>
LoadResolve(s, now, req) ==
    LET top == MostCommon(s.game_votes)
        r == Outcome(s, "load", top, s.game_voter_choices, req, now, {})
    IN IF top.count >= req
       THEN [LoadGame(s, top.key) EXCEPT !.res = Dispatch(r, "load", top.key, s.nextSession)]
       ELSE [s EXCEPT !.res = r]
LoadClear(s) ==
    [s EXCEPT !.game_votes = <<>>,
              !.game_voter_choices = EmptyDict,
              !.votes = <<>>,
              !.voter_choices = EmptyDict,
              !.stopgame_voters = {},
              !.load_vote_start = None,
              !.firstVote = NoFirst,
              !.seen = NoSeen,
              !.refilled = NoRefilled,
              !.cmd_cast = NoCast,
              !.stop_cast = NoCast]

\* the StopGame category
StopDue(s, now) ==
    Due(s.stopgame_vote_start, now) /\ s.game # None /\ s.stopgame_voters # {}
StopResolve(s, now, req) ==
    LET top == [key |-> "", count |-> Cardinality(s.stopgame_voters),
                users |-> s.stopgame_voters]
        r == Outcome(s, "stop", top, [u \in s.stopgame_voters |-> ""], req, now,
                     {s.stop_cast[u] : u \in s.stopgame_voters})
    IN IF top.count >= req
       THEN [GameStop(s) EXCEPT !.game = None,
                                !.res = Dispatch(r, "stop", "", s.game)]
       ELSE [s EXCEPT !.res = r]
StopClear(s) ==
    [s EXCEPT !.votes = <<>>,
              !.voter_choices = EmptyDict,
              !.game_votes = <<>>,
              !.game_voter_choices = EmptyDict,
              !.stopgame_voters = {},
              !.stopgame_vote_start = None,
              !.firstVote = NoFirst,
              !.seen = NoSeen,
              !.refilled = NoRefilled,
              !.cmd_cast = NoCast,
              !.stop_cast = NoCast]

\* no game: the command votes are dropped on every iteration
NoGameClear(s) ==
    [s EXCEPT !.votes = <<>>,
              !.voter_choices = EmptyDict,
              !.firstVote = [@ EXCEPT !["command"] = None],
              !.seen = [@ EXCEPT !["command"] = <<>>],
              !.refilled = [@ EXCEPT !["command"] = {}],
              !.cmd_cast = NoCast]

\* the Command category
CommandDue(s, now) == Due(s.command_vote_start, now) /\ s.votes # <<>>
\* InformGame.send_command: writing to the stdin of a process that has
\* exited raises BrokenPipeError, which nothing in _vote_loop catches.
CommandResolve(s, now, req) ==
    LET top == MostCommon(s.votes)
        r == Outcome(s, "command", top, s.voter_choices, req, now,
                     {s.cmd_cast[u] : u \in top.users})
    IN IF top.count >= req
       THEN IF s.game \in s.running
            THEN [s EXCEPT !.res = Dispatch(r, "send", top.key, s.game)]
            ELSE [s EXCEPT !.res = [Dispatch(r, "send", top.key, s.game)
                                        EXCEPT !.raised = TRUE],
                           !.loopAlive = FALSE]
       ELSE [s EXCEPT !.res = r]
CommandClear(s) ==
    [s EXCEPT !.votes = <<>>,
              !.voter_choices = EmptyDict,
              !.command_vote_start = None,
              !.firstVote = [@ EXCEPT !["command"] = None],
              !.seen = [@ EXCEPT !["command"] = <<>>],
              !.refilled = [@ EXCEPT !["command"] = {}],
              !.cmd_cast = NoCast]

\* One whole iteration of the loop body, after the sleep.
TickBody(s0, now) ==
    LET s == TickPurge(s0, now)
        req == Required(s, now)
    IN IF LoadDue(s, now) THEN LoadClear(LoadResolve(s, now, req))
       ELSE IF StopDue(s, now) THEN StopClear(StopResolve(s, now, req))
       ELSE IF s.game = None THEN NoGameClear(s)
       ELSE IF CommandDue(s, now)
            THEN LET r == CommandResolve(s, now, req)
                 IN IF r.loopAlive THEN CommandClear(r) ELSE r
            ELSE s

(* ------------------------------------------------------------------ *)
(* Specification with on_pubmsg and the loop iteration as atomic steps *)
(* ------------------------------------------------------------------ *)
\* InformBot.__init__, and the two threads at rest
InitBot ==
    /\ clock = 1
    /\ game = None
    /\ running = {}
    /\ nextSession = 1
    /\ voter_choices = EmptyDict
    /\ votes = <<>>
    /\ game_voter_choices = EmptyDict
    /\ game_votes = <<>>
    /\ stopgame_voters = {}
    /\ command_vote_start = None
    /\ load_vote_start = None
    /\ stopgame_vote_start = None
    /\ users_last_activity = EmptyDict
    /\ loopAlive = TRUE
    /\ relays = <<>>
    /\ replay_buffer = <<>>
    /\ gamename = "Unknown"
    /\ out = EmptyDict
    /\ written = 0
    /\ chan = <<>>
    /\ lastMsg = [u \in Nicks |-> None]
    /\ firstVote = NoFirst
    /\ seen = NoSeen
    /\ refilled = NoRefilled
    /\ cmd_cast = NoCast
    /\ stop_cast = NoCast
    /\ res = NoRes
    /\ reply = NoReply
    /\ hpc = "idle" /\ huser = "" /\ harg = "" /\ hgame = None
    /\ tpc = "sleep" /\ tnow = 0 /\ treq = 0

NoQuorum ==
    /\ qin = [active |-> 0, ratio |-> <<1, 1>>]
    /\ qout = None

Init ==
    /\ InitBot
    /\ ratio \in Ratios
    /\ typed \in Scenarios
    /\ NoQuorum

Rest == <<pipeVars, handlerVars, tickVars, quorumVars, lastMsg>>
Idle == <<clock, ratio, typed, Rest>>

\* time passes with no iteration of _vote_loop: its thread has died
Advance ==
    /\ ~loopAlive
    /\ clock < MaxTime
    /\ clock' = clock + 1
    /\ Install(Cur)
    /\ UNCHANGED <<ratio, typed, Rest>>

PubmsgLoad(user, name) ==
    /\ Install(OnLoad(RecordActivity(Cur, user, clock), user, name, clock))
    /\ UNCHANGED Idle

PubmsgVote(user, cmd) ==
    /\ Install(OnVote(RecordActivity(Cur, user, clock), user, cmd, clock))
    /\ UNCHANGED Idle

PubmsgStopgame(user) ==
    /\ Install(OnStopgame(RecordActivity(Cur, user, clock), user, clock))
    /\ UNCHANGED Idle

PubmsgStatus(user) ==
    /\ Install(OnStatus(RecordActivity(Cur, user, clock), clock))
    /\ UNCHANGED Idle

\* !vote without argument
PubmsgVoteQuery(user) ==
    /\ Install(OnVoteQuery(RecordActivity(Cur, user, clock)))
    /\ UNCHANGED Idle

\* !replay
PubmsgReplay(user) ==
    /\ Install(OnReplay(RecordActivity(Cur, user, clock)))
    /\ UNCHANGED Idle

\* !games, !help, and plain chat
PubmsgOther(user) ==
    /\ Install(RecordActivity(Cur, user, clock))
    /\ UNCHANGED Idle

\* the dfrotz process exits on its own (the players quit the game, or it crashes)
GameExits ==
    /\ game \in running
    /\ Install([Cur EXCEPT !.running = @ \ {game}])
    /\ UNCHANGED Idle

\* time.sleep(1), then one iteration of _vote_loop
Tick ==
    /\ loopAlive
    /\ clock < MaxTime
    /\ clock' = clock + 1
    /\ LET s == TickBody(Cur, clock + 1)
       IN /\ s.nextSession <= MaxSessions + 1
          /\ Install(s)
    /\ UNCHANGED <<ratio, typed, Rest>>

Next ==
    \/ Advance
    \/ \E u \in Participants, n \in typed[1] : PubmsgLoad(u, n)
    \/ \E u \in Participants, c \in typed[2] : PubmsgVote(u, c)
    \/ \E u \in StopVoters(typed) : PubmsgStopgame(u)
    \/ \E u \in Participants : PubmsgStatus(u)
    \/ \E u \in Participants : PubmsgVoteQuery(u)
    \/ \E u \in Participants : PubmsgReplay(u)
    \/ \E u \in Participants : PubmsgOther(u)
    \/ GameExits
    \/ Tick

Spec == Init /\ [][Next]_vars

(* ------------------------------------------------------------------ *)
(* The loop thread scheduled fairly.  An iteration is two steps, the  *)
(* sleep and the body; on_pubmsg runs while the loop sleeps.  The     *)
(* participants speak early only, and clock stands for every later    *)
(* time once it is MaxTime: by then each timer they started has run   *)
(* out and each activity record has decayed.                          *)
(* ------------------------------------------------------------------ *)
InitLive ==
    /\ InitBot
    /\ ratio = <<1, 2>>
    /\ typed = <<{"g1"}, {"look"}, TRUE, FALSE, 1, FALSE>>
    /\ NoQuorum

LiveRest == <<ratio, typed, pipeVars, handlerVars, quorumVars, lastMsg, treq>>
StillTalking ==
    /\ tpc = "sleep"
    /\ clock + VOTE_INTERVAL <= MaxTime
    /\ clock + ACTIVE_DECAY < MaxTime

LiveLoad(user, name) == StillTalking /\ nextSession <= MaxSessions /\ PubmsgLoad(user, name)
LiveVote(user, cmd) == StillTalking /\ PubmsgVote(user, cmd)
LiveStopgame(user) == StillTalking /\ PubmsgStopgame(user)
LiveExits == tpc = "sleep" /\ GameExits

\* time.sleep(1); now = time.time()
LiveSleep ==
    /\ loopAlive
    /\ tpc = "sleep"
    /\ clock' = IF clock < MaxTime THEN clock + 1 ELSE MaxTime
    /\ tnow' = clock'
    /\ tpc' = "body"
    /\ Install(Cur)
    /\ UNCHANGED LiveRest
\* the rest of the iteration
LiveBody ==
    /\ tpc = "body"
    /\ Install(TickBody(Cur, tnow))
    /\ tpc' = "sleep"
    /\ UNCHANGED <<clock, tnow, LiveRest>>

NextLive ==
    \/ \E u \in Participants, n \in typed[1] : LiveLoad(u, n)
    \/ \E u \in Participants, c \in typed[2] : LiveVote(u, c)
    \/ \E u \in StopVoters(typed) : LiveStopgame(u)
    \/ LiveExits
    \/ LiveSleep
    \/ LiveBody

SpecLive == InitLive /\ [][NextLive]_vars /\ WF_vars(LiveSleep) /\ WF_vars(LiveBody)

(* ------------------------------------------------------------------ *)
(* The same steps with a majority ratio of 1/4, under which two       *)
(* active participants need one vote, and two commands to vote for    *)
(* ------------------------------------------------------------------ *)
InitTie ==
    /\ InitBot
    /\ ratio = <<1, 4>>
    /\ typed = <<{"g1", "g2"}, {"look", "north"}, FALSE, FALSE, 1, TRUE>>
    /\ NoQuorum

NextTie ==
    \/ \E u \in Participants, n \in typed[1] : PubmsgLoad(u, n)
    \/ \E u \in Participants, c \in typed[2] : PubmsgVote(u, c)
    \/ Tick

SpecTie == InitTie /\ [][NextTie]_vars

(* ------------------------------------------------------------------ *)
(* The same steps with the bot's answers recorded: one game in the    *)
(* directory, a name that is not in it, one command, stop votes       *)
(* ------------------------------------------------------------------ *)
InitAnswers ==
    /\ InitBot
    /\ ratio = <<1, 2>>
    /\ typed = <<{"g1", "nofile"}, {"look"}, TRUE, TRUE, 1, FALSE>>
    /\ NoQuorum

NextAnswers ==
    \/ \E u \in Participants, n \in typed[1] : PubmsgLoad(u, n)
    \/ \E u \in Participants, c \in typed[2] : PubmsgVote(u, c)
    \/ \E u \in StopVoters(typed) : PubmsgStopgame(u)
    \/ Tick

SpecAnswers == InitAnswers /\ [][NextAnswers]_vars

(* ------------------------------------------------------------------ *)
(* The game processes' output and the _relay_game_output threads,     *)
(* interleaved with on_pubmsg and the loop iteration                  *)
(* ------------------------------------------------------------------ *)
InitRelay ==
    /\ InitBot
    /\ ratio = <<1, 2>>
    /\ typed = <<{"g1"}, {"look"}, TRUE, TRUE, 1, FALSE>>
    /\ NoQuorum

\* who writes to the channel in these runs
RelaySenders == {"u1"}

RelayRest == <<clock, ratio, typed, handlerVars, tickVars, quorumVars, lastMsg>>

\* the unread output of a game process
PipeOf(s, g) == IF g \in DOMAIN s.out THEN s.out[g] ELSE <<>>

RelayAt(i, pc) == i \in 1..Len(relays) /\ relays[i].pc = pc
RelayGoes(s, i, r) == [s EXCEPT !.relays = [@ EXCEPT ![i] = r]]
RelayStep(s) ==
    /\ Install(s)
    /\ UNCHANGED RelayRest

\* while self.game and self.game.process.poll() is None
RelayCheck(i) ==
    /\ RelayAt(i, "check")
    /\ RelayStep(RelayGoes(Cur, i,
                           [relays[i] EXCEPT !.pc = IF Truthy(game) /\ game \in running
                                                     THEN "open" ELSE "done"]))
    /\ UNCHANGED pipeVars

\* self.game.process.stdout: the stream of whatever self.game is now; with
\* self.game None the AttributeError is caught and ends the loop
RelayOpen(i) ==
    /\ RelayAt(i, "open")
    /\ RelayStep(RelayGoes(Cur, i,
                           IF game = None
                           THEN [relays[i] EXCEPT !.pc = "done"]
                           ELSE [relays[i] EXCEPT !.pc = "readline", !.fd = game]))
    /\ UNCHANGED pipeVars

\* readline(): the next line, or '' at end of stream (then sleep 0.1 and
\* test the loop condition again); blocked while the process runs and has
\* written nothing
RelayReadline(i) ==
    /\ RelayAt(i, "readline")
    /\ LET fd == relays[i].fd
           pipe == PipeOf(Cur, fd)
       IN \/ /\ pipe # <<>>
             /\ RelayStep(RelayGoes([Cur EXCEPT !.out = DictPut(@, fd, Tail(pipe))], i,
                                    [relays[i] EXCEPT !.pc = "privmsg", !.line = Head(pipe)]))
          \/ /\ pipe = <<>>
             /\ fd \notin running
             /\ RelayStep(RelayGoes(Cur, i, [relays[i] EXCEPT !.pc = "check", !.fd = None]))
    /\ UNCHANGED pipeVars

\* the third line read becomes self.gamename; self.client.privmsg(CHANNEL, line)
RelayPrivmsg(i) ==
    /\ RelayAt(i, "privmsg")
    /\ LET r == relays[i]
           third == ~r.named /\ r.counter + 1 = 3
       IN /\ RelayStep(RelayGoes(Cur, i,
                                 [r EXCEPT !.pc = "append",
                                           !.counter = IF r.named THEN @ ELSE @ + 1,
                                           !.named = @ \/ third]))
          /\ gamename' = IF third THEN r.line ELSE gamename
    /\ chan' = Append(chan, relays[i].line)
    /\ UNCHANGED replay_buffer

\* self.replay_buffer.append(line)
RelayAppend(i) ==
    /\ RelayAt(i, "append")
    /\ replay_buffer' = Append(replay_buffer, relays[i].line)
    /\ RelayStep(RelayGoes(Cur, i, [relays[i] EXCEPT !.pc = "pop", !.line = None]))
    /\ UNCHANGED <<gamename, chan>>

\* if len(self.replay_buffer) > BUFFERLENGTH: self.replay_buffer.pop(0);
\* then sleep 1 and test the loop condition again
RelayPop(i) ==
    /\ RelayAt(i, "pop")
    /\ replay_buffer' = IF Len(replay_buffer) > BUFFERLENGTH
                        THEN Tail(replay_buffer) ELSE replay_buffer
    /\ RelayStep(RelayGoes(Cur, i, [relays[i] EXCEPT !.pc = "check", !.fd = None]))
    /\ UNCHANGED <<gamename, chan>>

NextRelay ==
    \/ \E u \in RelaySenders, n \in typed[1] : PubmsgLoad(u, n)
    \/ \E u \in RelaySenders, c \in typed[2] : PubmsgVote(u, c)
    \/ \E u \in RelaySenders : PubmsgStopgame(u)
    \/ \E u \in RelaySenders : PubmsgStatus(u)
    \/ GameExits
    \/ Tick
    \/ \E i \in 1..MaxSessions :
          \/ RelayCheck(i) \/ RelayOpen(i) \/ RelayReadline(i)
          \/ RelayPrivmsg(i) \/ RelayAppend(i) \/ RelayPop(i)

SpecRelay == InitRelay /\ [][NextRelay]_vars

(* ------------------------------------------------------------------ *)
(* The replay buffer: games that print three lines, their relay       *)
(* threads, and !status and !replay reading the buffer                *)
(* ------------------------------------------------------------------ *)
InitBuffer ==
    /\ InitBot
    /\ ratio = <<1, 2>>
    /\ typed = <<{"g1"}, {}, FALSE, TRUE, 3, FALSE>>
    /\ NoQuorum

NextBuffer ==
    \/ \E u \in RelaySenders, n \in typed[1] : PubmsgLoad(u, n)
    \/ \E u \in RelaySenders : PubmsgStatus(u)
    \/ \E u \in RelaySenders : PubmsgReplay(u)
    \/ Tick
    \/ \E i \in 1..MaxSessions :
          \/ RelayCheck(i) \/ RelayOpen(i) \/ RelayReadline(i)
          \/ RelayPrivmsg(i) \/ RelayAppend(i) \/ RelayPop(i)

SpecBuffer == InitBuffer /\ [][NextBuffer]_vars

(* ------------------------------------------------------------------ *)
(* get_required_votes taken alone                                     *)
(* ------------------------------------------------------------------ *)
InitQuorum ==
    /\ InitBot
    /\ ratio = <<1, 1>>
    /\ typed = <<{}, {}, FALSE, FALSE, 1, FALSE>>
    /\ qin \in [active : 0..MaxActive, ratio : QuorumRatios]
    /\ qout = None

GetRequiredVotes ==
    /\ qout = None
    /\ qout' = RequiredVotes(qin.active, qin.ratio)
    /\ UNCHANGED <<qin, clock, ratio, typed, progVars, pipeVars, histVars, handlerVars,
                   tickVars>>

NextQuorum == GetRequiredVotes

SpecQuorum == InitQuorum /\ [][NextQuorum]_vars

(* ------------------------------------------------------------------ *)
(* The activity record taken alone: messages of any nick, the clock,  *)
(* and calls of get_active_user_count                                 *)
(* ------------------------------------------------------------------ *)
InitActivity ==
    /\ InitBot
    /\ ratio \in Ratios
    /\ typed = <<{}, {}, FALSE, TRUE, 1, FALSE>>
    /\ NoQuorum

ActivityRest == <<ratio, typed, pipeVars, handlerVars, tickVars, quorumVars>>

\* on_pubmsg for a message that is no command
ActivityMessage(user) ==
    /\ Install(RecordActivity(Cur, user, clock))
    /\ lastMsg' = [lastMsg EXCEPT ![user] = clock]
    /\ UNCHANGED <<clock, ActivityRest>>

\* on_pubmsg for !status
ActivityStatus(user) ==
    /\ Install(OnStatus(RecordActivity(Cur, user, clock), clock))
    /\ lastMsg' = [lastMsg EXCEPT ![user] = clock]
    /\ UNCHANGED <<clock, ActivityRest>>

\* on_pubmsg for !vote without argument
ActivityVoteQuery(user) ==
    /\ Install(OnVoteQuery(RecordActivity(Cur, user, clock)))
    /\ lastMsg' = [lastMsg EXCEPT ![user] = clock]
    /\ UNCHANGED <<clock, ActivityRest>>

ActivityAdvance ==
    /\ clock < MaxTime
    /\ clock' = clock + 1
    /\ Install(Cur)
    /\ UNCHANGED <<lastMsg, ActivityRest>>

\* get_active_user_count(), from _vote_loop or _handle_status
ActivityCount ==
    /\ Install(TickPurge(Cur, clock))
    /\ UNCHANGED <<clock, lastMsg, ActivityRest>>

NextActivity ==
    \/ \E u \in Nicks : ActivityMessage(u)
    \/ \E u \in Participants : ActivityStatus(u)
    \/ \E u \in Participants : ActivityVoteQuery(u)
    \/ ActivityAdvance
    \/ ActivityCount

SpecActivity == InitActivity /\ [][NextActivity]_vars

(* ------------------------------------------------------------------ *)
(* Specification with the two threads interleaved between statements: *)
(* on_pubmsg runs on the reactor thread, _vote_loop on its own        *)
(* thread, and the code takes no lock                                 *)
(* ------------------------------------------------------------------ *)
InitFine ==
    /\ InitBot
    /\ ratio = <<1, 2>>
    /\ typed = <<{"g1"}, {"look"}, TRUE, FALSE, 1, FALSE>>
    /\ NoQuorum

FineRest == <<ratio, typed, pipeVars, quorumVars, lastMsg>>
\* who writes to the channel in the interleaved runs
FineSenders == {"u1"}

HandlerAt(pc) == hpc = pc
HandlerGoes(pc) ==
    /\ hpc' = pc
    /\ IF pc = "idle"
       THEN huser' = "" /\ harg' = "" /\ hgame' = None
       ELSE UNCHANGED <<huser, harg, hgame>>
HandlerStep(s, pc) ==
    /\ Install(s)
    /\ HandlerGoes(pc)
    /\ UNCHANGED <<clock, tickVars, FineRest>>

\* a message arrives: users_last_activity is updated, the command is recognised
HReceive(user, arg, pc) ==
    /\ HandlerAt("idle")
    /\ Install(IF pc = "not_found"
               THEN Say(RecordActivity(Cur, user, clock), "not_found", user, arg)
               ELSE RecordActivity(Cur, user, clock))
    /\ hpc' = IF pc = "not_found" THEN "idle" ELSE pc
    /\ IF pc \in {"idle", "not_found"}
       THEN huser' = "" /\ harg' = ""
       ELSE huser' = user /\ harg' = arg
    /\ hgame' = None
    /\ UNCHANGED <<clock, tickVars, FineRest>>
HReceiveLoad(user, name) ==
    HReceive(user, name, IF name \in GameDir THEN "load_old" ELSE "not_found")
HReceiveVote(user, cmd) == HReceive(user, cmd, "vote_check")
HReceiveStopgame(user) == HReceive(user, "", "stop_check")
HReceiveOther(user) == HReceive(user, "", "idle")

\* !load, statement by statement
HLoadOld == HandlerAt("load_old") /\ HandlerStep(LoadDiscardOld(Cur, huser), "load_choice")
HLoadChoice ==
    HandlerAt("load_choice") /\ HandlerStep(LoadSetChoice(Cur, huser, harg, clock), "load_add")
HLoadAdd == HandlerAt("load_add") /\ HandlerStep(LoadAdd(Cur, huser, harg), "load_start")
HLoadStart == HandlerAt("load_start") /\ HandlerStep(LoadStart(Cur, clock), "idle")

\* !vote <text>, statement by statement
HVoteCheck ==
    /\ HandlerAt("vote_check")
    /\ Install(IF game = None THEN Say(Cur, "no_game_loaded", "", "") ELSE Cur)
    /\ IF game = None
       THEN HandlerGoes("idle")
       ELSE hpc' = "vote_old" /\ hgame' = game /\ UNCHANGED <<huser, harg>>
    /\ UNCHANGED <<clock, tickVars, FineRest>>
HVoteOld == HandlerAt("vote_old") /\ HandlerStep(VoteDiscardOld(Cur, huser), "vote_choice")
HVoteChoice ==
    HandlerAt("vote_choice") /\ HandlerStep(VoteSetChoice(Cur, huser, harg, clock), "vote_add")
HVoteAdd == HandlerAt("vote_add") /\ HandlerStep(VoteAdd(Cur, huser, harg, hgame), "vote_start")
HVoteStart == HandlerAt("vote_start") /\ HandlerStep(VoteStart(Cur, clock), "idle")

\* !stopgame, statement by statement
HStopCheck ==
    /\ HandlerAt("stop_check")
    /\ Install(IF game = None THEN Say(Cur, "no_game_running", "", "") ELSE Cur)
    /\ IF game = None
       THEN HandlerGoes("idle")
       ELSE hpc' = "stop_add" /\ hgame' = game /\ UNCHANGED <<huser, harg>>
    /\ UNCHANGED <<clock, tickVars, FineRest>>
HStopAdd ==
    /\ HandlerAt("stop_add")
    /\ IF huser \notin stopgame_voters
       THEN HandlerStep(StopAdd(Cur, huser, clock, hgame), "stop_start")
       ELSE HandlerStep(Say(Cur, "already_voted", huser, ""), "idle")
HStopStart == HandlerAt("stop_start") /\ HandlerStep(StopStart(Cur, clock), "idle")

\* _vote_loop, statement group by statement group
TickStep(s, pc) ==
    /\ Install(s)
    /\ tpc' = pc
    /\ UNCHANGED <<clock, tnow, treq, handlerVars, FineRest>>
TWake ==
    /\ tpc = "sleep"
    /\ clock < MaxTime
    /\ clock' = clock + 1
    /\ tnow' = clock + 1
    /\ treq' = Required(TickPurge(Cur, clock + 1), clock + 1)
    /\ Install(TickPurge(Cur, clock + 1))
    /\ tpc' = "load"
    /\ UNCHANGED <<handlerVars, FineRest>>
TLoad ==
    /\ tpc = "load"
    /\ IF LoadDue(Cur, tnow)
       THEN /\ nextSession <= MaxSessions
            /\ TickStep(LoadResolve(Cur, tnow, treq), "load_clear")
       ELSE TickStep(Cur, "stop")
TLoadClear == tpc = "load_clear" /\ TickStep(LoadClear(Cur), "sleep")
TStop ==
    /\ tpc = "stop"
    /\ IF StopDue(Cur, tnow)
       THEN TickStep(StopResolve(Cur, tnow, treq), "stop_clear")
       ELSE TickStep(Cur, "nogame")
TStopClear == tpc = "stop_clear" /\ TickStep(StopClear(Cur), "sleep")
TNoGame ==
    /\ tpc = "nogame"
    /\ IF game = None
       THEN TickStep(NoGameClear(Cur), "sleep")
       ELSE TickStep(Cur, "command")
TCommand ==
    /\ tpc = "command"
    /\ IF CommandDue(Cur, tnow)
       THEN LET r == CommandResolve(Cur, tnow, treq)
            IN TickStep(r, IF r.loopAlive THEN "command_clear" ELSE "dead")
       ELSE TickStep(Cur, "sleep")
TCommandClear == tpc = "command_clear" /\ TickStep(CommandClear(Cur), "sleep")

NextFine ==
    \/ \E u \in FineSenders, n \in typed[1] : HReceiveLoad(u, n)
    \/ \E u \in FineSenders, c \in typed[2] : HReceiveVote(u, c)
    \/ \E u \in FineSenders : HReceiveStopgame(u)
    \/ \E u \in FineSenders : HReceiveOther(u)
    \/ HLoadOld \/ HLoadChoice \/ HLoadAdd \/ HLoadStart
    \/ HVoteCheck \/ HVoteOld \/ HVoteChoice \/ HVoteAdd \/ HVoteStart
    \/ HStopCheck \/ HStopAdd \/ HStopStart
    \/ TWake \/ TLoad \/ TLoadClear \/ TStop \/ TStopClear
    \/ TNoGame \/ TCommand \/ TCommandClear

SpecFine == InitFine /\ [][NextFine]_vars

(* ------------------------------------------------------------------ *)
(* Properties                                                         *)
(* ------------------------------------------------------------------ *)
Resolved == res.cat # "none"
Dispatched == Len(res.dispatched)

\* The Ballot of a category is cleared: no choices, no tally, no start time.
BallotCleared(cat) ==
    CASE cat = "load" ->
            /\ DOMAIN game_voter_choices = {} /\ game_votes = <<>>
            /\ load_vote_start = None
      [] cat = "command" ->
            /\ DOMAIN voter_choices = {} /\ votes = <<>>
            /\ command_vote_start = None
      [] cat = "stop" ->
            /\ stopgame_voters = {}
            /\ stopgame_vote_start = None

\* C1: in every reachable state, and for each of the three categories, the
\* round start time is unset if and only if the category holds no votes.
StartUnsetIffNoVotes ==
    /\ (load_vote_start = None) <=> (DOMAIN game_voter_choices = {})
    /\ (command_vote_start = None) <=> (DOMAIN voter_choices = {})
    /\ (stopgame_vote_start = None) <=> (stopgame_voters = {})

\* C2: a tick resolves a category only if at least VOTE_INTERVAL seconds
\* have elapsed since the first vote cast in that category after its votes
\* were last cleared.
ResolutionNeverEarly ==
    Resolved => (res.first # None /\ res.now - res.first >= VOTE_INTERVAL)

\* choiceOf and tally agree: every voter is in the bucket of their choice and
\* in no other, nobody else is in a bucket, and the bucket sizes add up to
\* the number of voters.
RECURSIVE SumSizes(_)
SumSizes(tally) ==
    IF tally = <<>> THEN 0
    ELSE Cardinality(Head(tally).users) + SumSizes(Tail(tally))
TallyAgrees(choices, tally) ==
    /\ \A p \in DOMAIN choices :
          /\ choices[p] \in Keys(tally)
          /\ \A i \in 1..Len(tally) : (p \in tally[i].users) <=> (tally[i].key = choices[p])
    /\ \A i \in 1..Len(tally) : tally[i].users \subseteq DOMAIN choices
    /\ SumSizes(tally) = Cardinality(DOMAIN choices)

\* C3: with on_pubmsg and the loop iteration atomic, the LoadGame and the
\* Command Ballots keep choiceOf and tally in agreement; a re-vote replaces
\* the participant's earlier vote.
TallyMatchesChoices ==
    /\ TallyAgrees(game_voter_choices, game_votes)
    /\ TallyAgrees(voter_choices, votes)
\* a participant has moved their command vote from the first bucket to the second
RevoteReplaced ==
    /\ Len(votes) = 2
    /\ votes[1].users = {}
    /\ \E p \in Participants :
          /\ votes[2].users = {p}
          /\ p \in DOMAIN voter_choices
          /\ voter_choices[p] = votes[2].key

\* C4: when a tick resolves the LoadGame category, the Command and the
\* StopGame Ballots are fully cleared at the end of that tick, their round
\* start times included.
LoadResolutionClearsOthers ==
    res.cat = "load" => (BallotCleared("command") /\ BallotCleared("stop"))

\* C5: a resolution whose leading count reaches requiredVotes dispatches
\* exactly one action and clears the Ballot; one whose count does not
\* dispatches nothing, leaves the session as it was and clears the Ballot.
ResolutionDispatchesOrNot ==
    Resolved =>
        IF res.count >= res.required
        THEN Dispatched = 1 /\ BallotCleared(res.cat)
        ELSE /\ Dispatched = 0
             /\ game = res.gameBefore /\ running = res.runningBefore
             /\ BallotCleared(res.cat)

\* The only active participant is the only voter of the resolved category.
LoneVoterResolved ==
    /\ Resolved
    /\ Cardinality(res.active) = 1
    /\ res.voters = res.active

\* C8: for every ratio in (0,1], when the only active participant is the
\* only voter of a category, their one vote meets requiredVotes at
\* resolution and their choice is dispatched.
SingleVoterActs ==
    LoneVoterResolved => (res.count >= res.required /\ Dispatched = 1)
\* C8, amended: the same for every ratio strictly below 1.
SingleVoterActsBelowOne ==
    /\ \A r \in QuorumRatios : r[1] < r[2] => RequiredVotes(1, r) = 1
    /\ (LoneVoterResolved /\ ratio[1] < ratio[2]) =>
          (res.required = 1 /\ res.count >= res.required /\ Dispatched = 1)
LoneVoterDispatched ==
    LoneVoterResolved /\ ratio[1] < ratio[2] /\ Dispatched = 1

\* floor(active * ratio), as the integer k with k <= active * ratio < k + 1
RefFloor(active, r) ==
    CHOOSE k \in 0..active : k * r[2] <= active * r[1] /\ active * r[1] < (k + 1) * r[2]

\* C9: get_required_votes equals max(1, floor(activeCount * majorityRatio) + 1);
\* it is 1 for no active participant, activeCount + 1 at ratio 1, and 2 for
\* three active participants at ratio 1/2.
QuorumMatchesReference ==
    qout # None =>
        /\ qout = IntMax(1, RefFloor(qin.active, qin.ratio) + 1)
        /\ qin.active = 0 => qout = 1
        /\ qin.ratio = <<1, 1>> => qout = qin.active + 1
        /\ (qin.active = 3 /\ qin.ratio = <<1, 2>>) => qout = 2
ThreeAtHalfNeedTwo ==
    qin.active = 3 /\ qin.ratio = <<1, 2>> /\ qout = 2

\* The participants whose most recent message is within the decay window.
RecentSpeakers ==
    {p \in Participants : lastMsg[p] # None /\ lastMsg[p] >= clock - ACTIVE_DECAY}
AllLongSilent ==
    \A p \in Participants : lastMsg[p] # None /\ clock >= lastMsg[p] + ACTIVE_DECAY + 1

\* C10: the active count is the number of participants, the bot excluded,
\* whose most recent message is at most ACTIVE_DECAY seconds old; when all
\* have been silent for ACTIVE_DECAY + 1 seconds it is 0 and requiredVotes is 1.
ActiveCountIsRecentSpeakers ==
    /\ ActiveCount(users_last_activity, clock) = Cardinality(RecentSpeakers)
    /\ AllLongSilent =>
          /\ ActiveCount(users_last_activity, clock) = 0
          /\ Required(Cur, clock) = 1
\* everybody has gone silent, the bot's own line is the only recent one
SilentButBot ==
    /\ AllLongSilent
    /\ BOT_NICK \in DOMAIN Purge(users_last_activity, clock)
    /\ ActiveCount(users_last_activity, clock) = 0

\* C6: a command sent to, or a stop applied to, a session was voted for only
\* by votes cast while that session was the current one, in every
\* interleaving of on_pubmsg with the loop iteration.
VotesActOnTheirSession ==
    \A i \in 1..Len(res.dispatched) :
        res.dispatched[i].op \in {"send", "stop"} =>
            res.cast \subseteq {res.dispatched[i].on}

\* C7: no clearing by the tick falls between the steps of one vote cast by
\* the handler, so choiceOf and tally agree at every point at which the
\* handler is not in the middle of a vote, under interleaving of the two threads.
TallyMatchesChoicesInterleaved ==
    HandlerAt("idle") => TallyMatchesChoices

\* What a status query has to leave alone: the three Ballots and their round
\* start times, the Session reference, the replay buffer, and the activity
\* record of every participant but the sender.
QueryFrame(sender) ==
    /\ UNCHANGED ballotVars
    /\ UNCHANGED <<game, replay_buffer>>
    /\ \A p \in Participants \ {sender} :
          /\ (p \in DOMAIN users_last_activity) <=> (p \in DOMAIN users_last_activity')
          /\ p \in DOMAIN users_last_activity =>
                users_last_activity'[p] = users_last_activity[p]

\* C11: a status query (!vote without argument, or !status) changes nothing
\* of the engine state but the sender's own activity timestamp: the Ballots,
\* their start times, the Session reference, the replay buffer and the other
\* participants' activity records are the same before and after it.
StatusQueryChangesNothing ==
    [][\A u \in Participants :
          (ActivityStatus(u) \/ ActivityVoteQuery(u) \/ PubmsgStatus(u) \/ PubmsgVoteQuery(u))
              => QueryFrame(u)]_vars

\* C14: a !vote <text> received while no session exists is answered with the
\* "no game loaded" line and records no vote: the Command Ballot's choices,
\* tally and start time, and the two other Ballots, are as before.
VoteWithoutSessionRejected ==
    [][\A u \in Participants, c \in typed[2] :
          (game = None /\ PubmsgVote(u, c))
              => (reply'.text = "no_game_loaded" /\ UNCHANGED ballotVars)]_vars
\* the rejection has been sent while the LoadGame Ballot holds a vote
VoteRejectedDuringLoadRound ==
    /\ reply.text = "no_game_loaded"
    /\ game = None
    /\ DOMAIN voter_choices = {} /\ votes = <<>>
    /\ DOMAIN game_voter_choices # {}

\* C15: a !load <name> whose name is not in the game list is answered with
\* the not-found line and changes no voting state; a participant who holds a
\* LoadGame vote keeps it.
UnknownLoadRejected ==
    [][\A u \in Participants, n \in typed[1] :
          (n \notin GameDir /\ PubmsgLoad(u, n))
              => /\ reply'.text = "not_found" /\ reply'.user = u /\ reply'.arg = n
                 /\ UNCHANGED ballotVars]_vars
\* the not-found line has gone to a participant whose earlier vote stands
UnknownLoadKeepsEarlierVote ==
    /\ reply.text = "not_found"
    /\ reply.arg \notin GameDir
    /\ reply.user \in DOMAIN game_voter_choices
    /\ game_voter_choices[reply.user] \in GameDir
    /\ \E i \in 1..Len(game_votes) : reply.user \in game_votes[i].users
    /\ load_vote_start # None

\* the last n elements of a sequence
LastLines(seq, n) ==
    IF Len(seq) <= n THEN seq ELSE SubSeq(seq, Len(seq) - n + 1, Len(seq))
\* a relay thread is between sending a line and trimming the buffer
MidAppend == \E i \in 1..Len(relays) : relays[i].pc \in {"append", "pop"}

\* C12: in every state another thread can observe, the replay buffer holds
\* at most BUFFERLENGTH lines, !status and !replay show no more than that,
\* and once the k lines relayed so far are all appended it holds the last
\* min(k, BUFFERLENGTH) of them in their order.
ReplayBufferHoldsLastLines ==
    /\ Len(replay_buffer) <= BUFFERLENGTH
    /\ reply.text \in {"status", "replay"} => reply.size <= BUFFERLENGTH
    /\ ~MidAppend => replay_buffer = LastLines(chan, BUFFERLENGTH)

\* C13: at most one game process is running, and it is the one self.game
\* refers to: load_game stops the previous game before it starts the next,
\* and a StopGame resolution stops the game before it drops the reference.
AtMostOneLiveProcess ==
    /\ Cardinality(running) <= 1
    /\ running \subseteq {game}
\* a LoadGame resolution has replaced a game that was still running
RunningGameSuperseded ==
    /\ res.cat = "load" /\ Dispatched = 1
    /\ res.gameBefore \in res.runningBefore
    /\ game # res.gameBefore
    /\ running = {game}

\* the game process has ended by itself and every relay thread has stopped
EndedAndRelayStopped ==
    /\ game # None /\ game \notin running
    /\ \A i \in 1..Len(relays) : relays[i].pc = "done"

\* C16: once the game process has ended unexpectedly and the relay has
\* stopped, a !status reports no game, a !vote <text> is answered with the
\* "no game loaded" line, and the loop iteration neither sends a command to
\* the dead process nor raises.
EndedSessionTreatedAsGone ==
    [][EndedAndRelayStopped =>
          /\ \A u \in RelaySenders : PubmsgStatus(u) => ~reply'.active
          /\ \A u \in RelaySenders, c \in typed[2] :
                PubmsgVote(u, c) => reply'.text = "no_game_loaded"
          /\ Tick => (~res'.raised /\ res'.dispatched = <<>>)]_vars

\* the relay threads that hold the current session's output stream
ReadersOfCurrent == {i \in 1..Len(relays) : game # None /\ relays[i].fd = game}

\* C20: at most one relay thread reads the current session's output, and no
\* line is sent to the channel twice.
OneRelayPerSession ==
    /\ Cardinality(ReadersOfCurrent) <= 1
    /\ \A i, j \in 1..Len(chan) : chan[i] = chan[j] => i = j

\* the number of votes a choice holds at the resolution
VotesFor(c) == Cardinality({u \in DOMAIN res.choices : res.choices[u] = c})
\* the choices that hold the highest number of votes
Leaders == {c \in Range(res.seen) : \A d \in Range(res.seen) : VotesFor(d) <= VotesFor(c)}
FirstVotedAt(c) == CHOOSE i \in 1..Len(res.seen) : res.seen[i] = c

\* C19: the choice a resolution takes is, among the choices with the highest
\* count, the one that was first voted for since the Ballot was last
\* cleared, whether or not its bucket was emptied and filled again since.
EarliestLeaderResolved ==
    res.cat \in {"load", "command"} =>
        /\ res.key \in Leaders
        /\ res.count = VotesFor(res.key)
        /\ \A c \in Leaders : FirstVotedAt(res.key) <= FirstVotedAt(c)
        /\ \A i \in 1..Len(res.dispatched) : res.dispatched[i].arg = res.key
\* "north" and "look" are tied, "north" was voted for first, its bucket was
\* emptied and filled again, and "north" is sent to the game
TieWonByRefilledBucket ==
    /\ res.cat = "command" /\ Dispatched = 1
    /\ Leaders = {"look", "north"}
    /\ res.seen = <<"north", "look">>
    /\ "north" \in res.refilled
    /\ res.dispatched[1].arg = "north"

\* C18: a tick resolves at most one category and makes at most one call on
\* the game, LoadGame before StopGame before Command: a due LoadGame is the
\* one resolved; with LoadGame not due, a due StopGame is the one resolved
\* and leaves all three Ballots cleared; Command is resolved only when
\* neither was due and there is a session.
TickResolvesInPriority ==
    [][Tick =>
        LET now == clock + 1
        IN /\ Len(res'.dispatched) <= 1
           /\ LoadDue(Cur, now) => res'.cat = "load"
           /\ (~LoadDue(Cur, now) /\ StopDue(Cur, now)) =>
                 /\ res'.cat = "stop"
                 /\ BallotCleared("load")'
                 /\ BallotCleared("stop")'
                 /\ BallotCleared("command")'
           /\ res'.cat = "command" =>
                 /\ ~LoadDue(Cur, now) /\ ~StopDue(Cur, now)
                 /\ game # None]_vars

\* a category is collecting: it has at least one vote
Collecting(cat) ==
    CASE cat = "load" -> game_votes # <<>> \/ DOMAIN game_voter_choices # {}
      [] cat = "command" -> votes # <<>> \/ DOMAIN voter_choices # {}
      [] cat = "stop" -> stopgame_voters # {}

\* C17: with the loop thread scheduled fairly, a category that has a vote
\* is later idle with its Ballot cleared (no votes, no start time), and the
\* loop runs its body again and again.
CollectingLeadsToCleared ==
    /\ \A cat \in {"load", "command", "stop"} : Collecting(cat) ~> BallotCleared(cat)
    /\ []<>(tpc = "body")

====
